---- MODULE Spec2Model ----
(***************************************************************************)
(* The MetaMove solver of twisty-puzzles                                   *)
(* (rust/src/solver/metamove_solver.rs): construction of the metamove      *)
(* library (MetaMoveSolver::new), the pull operation (Iterator::next),     *)
(* find_best_metamove and filter_duplicates.  The puzzle model, MetaMove   *)
(* and the combination traversal live in modules of the crate that are     *)
(* only imported here (twisty_puzzle, metamoves, traverse_combinations);   *)
(* they are modelled from their documented contract.                       *)
(***************************************************************************)
EXTENDS Integers, Sequences, FiniteSets, TLC

(***************************************************************************)
(* Bounds of the model.                                                    *)
(***************************************************************************)
\* Longest scramble (number of random turns) an initial state is drawn from.
MaxScramble == 5
\* How many times discover_repeat_metamoves repeats a metamove against itself.
MaxRepeat == 3
\* Pulls after which the driving loop gives up (never reached by the solver).
MaxPulls == 200
\* The longest list handed to filter_duplicates on its own.
MaxFilterLen == 3

(***************************************************************************)
(* Program constants.                                                      *)
(***************************************************************************)
max_discover_metamoves_depth == 5
combine_depth == 2
max_affected_pieces == 3
depth == 2
search_depth_first == 4
search_depth_last == 5

(***************************************************************************)
(* Sequence helpers.                                                       *)
(***************************************************************************)
Range(s) == { s[i] : i \in DOMAIN s }

RECURSIVE Perms(_)
\* Every sequence that lists the elements of the finite set S exactly once.
Perms(S) ==
    IF S = {} THEN { <<>> }
    ELSE UNION { { <<x>> \o p : p \in Perms(S \ {x}) } : x \in S }

RECURSIVE SeqsUpTo(_, _)
\* Every sequence over S of length at most k.
SeqsUpTo(S, k) ==
    IF k = 0 THEN { <<>> }
    ELSE LET shorter == SeqsUpTo(S, k - 1)
         IN  shorter \cup { Append(q, x) : q \in { r \in shorter : Len(r) = k - 1 }, x \in S }

(***************************************************************************)
(* Puzzle model (crate::twisty_puzzle).  A puzzle is a piece count and an  *)
(* ordered list of turns; a turn's face map sends each position index      *)
(* 0..n-1 to the position its occupant moves to.                           *)
(***************************************************************************)
FaceMap(list) == [ i \in 0 .. Len(list) - 1 |-> list[i + 1] ]

\* Six pieces: a double swap and a six-cycle (generate all 720 arrangements).
PuzzleSix ==
    [ num_pieces |-> 6,
      turns |-> << FaceMap(<<0, 1, 3, 2, 5, 4>>), FaceMap(<<1, 2, 4, 0, 5, 3>>) >> ]
\* Four pieces: a swap and a four-cycle (generate all 24 arrangements).
PuzzleFour ==
    [ num_pieces |-> 4,
      turns |-> << FaceMap(<<0, 1, 3, 2>>), FaceMap(<<1, 2, 3, 0>>) >> ]
\* Six pieces and a single six-cycle: no short sequence moves fewer pieces.
PuzzleRing ==
    [ num_pieces |-> 6,
      turns |-> << FaceMap(<<1, 2, 3, 4, 5, 0>>) >> ]
\* Nine pieces, a swap beside a seven-cycle: the turn's even powers move 7
\* pieces, fewer than the turn, and no short power moves 3 or fewer.
PuzzleNine ==
    [ num_pieces |-> 9,
      turns |-> << FaceMap(<<1, 0, 3, 4, 5, 6, 7, 8, 2>>) >> ]
\* Eight pieces, three swaps and a seven-cycle: some scrambles need more
\* than one combination of library MetaMoves.
PuzzleEight ==
    [ num_pieces |-> 8,
      turns |-> << FaceMap(<<0, 3, 2, 1, 7, 6, 5, 4>>),
                   FaceMap(<<6, 4, 3, 5, 7, 0, 1, 2>>) >> ]
\* Nine pieces whose turns displace different numbers of pieces: turn 0
\* is a seven-cycle, turn 1 a swap of the two remaining pieces.
PuzzleUneven ==
    [ num_pieces |-> 9,
      turns |-> << FaceMap(<<1, 2, 3, 4, 5, 6, 0, 7, 8>>),
                   FaceMap(<<0, 1, 2, 3, 4, 5, 6, 8, 7>>) >> ]

\* Eight pieces and two turns of order four that displace six pieces each:
\* the library holds two MetaMoves of eight turns and three displaced pieces
\* each, which the order on MetaMoves does not tell apart.
PuzzleTwoFaces ==
    [ num_pieces |-> 8,
      turns |-> << FaceMap(<<1, 2, 7, 6, 4, 5, 3, 0>>),
                   FaceMap(<<0, 1, 4, 7, 2, 6, 3, 5>>) >> ]

Puzzles ==
    { PuzzleSix, PuzzleFour, PuzzleRing, PuzzleNine, PuzzleEight, PuzzleUneven,
      PuzzleTwoFaces }

Positions(puzzle) == 0 .. puzzle.num_pieces - 1
TurnIndices(puzzle) == 0 .. Len(puzzle.turns) - 1

get_num_pieces(puzzle) == puzzle.num_pieces

get_initial_state(puzzle) == [ i \in Positions(puzzle) |-> i ]

\* The occupant of position i moves to position face_map[i].
get_derived_state(puzzle, state, face_map) ==
    [ j \in Positions(puzzle) |->
        state[CHOOSE i \in Positions(puzzle) : face_map[i] = j] ]

get_derived_state_turn_index(puzzle, state, turn_index) ==
    get_derived_state(puzzle, state, puzzle.turns[turn_index + 1])

RECURSIVE get_derived_state_from_turn_sequence(_, _, _)
get_derived_state_from_turn_sequence(puzzle, state, turns) ==
    IF turns = <<>> THEN state
    ELSE get_derived_state_from_turn_sequence(
             puzzle, get_derived_state_turn_index(puzzle, state, Head(turns)), Tail(turns))

get_num_solved_pieces(puzzle, state) ==
    Cardinality({ i \in Positions(puzzle) : state[i] = get_initial_state(puzzle)[i] })

\* The states a scramble of at most MaxScramble random turns can produce.
scramble(puzzle, state) ==
    { get_derived_state_from_turn_sequence(puzzle, state, seq) :
        seq \in SeqsUpTo(TurnIndices(puzzle), MaxScramble) }

(***************************************************************************)
(* MetaMove (crate::solver::metamoves): a turn sequence, the face map it   *)
(* composes to, and the cached count of positions the face map displaces.  *)
(***************************************************************************)
count_affected_pieces(puzzle, face_map) ==
    Cardinality({ i \in Positions(puzzle) : face_map[i] # i })

MetaMove_new(puzzle, turns, face_map) ==
    [ turns |-> turns,
      face_map |-> face_map,
      num_affected_pieces |-> count_affected_pieces(puzzle, face_map) ]

MetaMove_empty(puzzle) == MetaMove_new(puzzle, <<>>, get_initial_state(puzzle))

\* self followed by other: turn lists concatenated, permutations composed.
\* MetaMove_apply with the two face maps composed in the other order.
MetaMove_apply_other_first(puzzle, self, other) ==
    MetaMove_new(puzzle,
                 self.turns \o other.turns,
                 [ i \in Positions(puzzle) |-> self.face_map[other.face_map[i]] ])

\* self.apply(other): the turns of self, then those of other.
MetaMove_apply(puzzle, self, other) ==
    MetaMove_new(puzzle,
                 self.turns \o other.turns,
                 [ i \in Positions(puzzle) |-> other.face_map[self.face_map[i]] ])

RECURSIVE MetaMove_new_infer_face_map(_, _)
MetaMove_new_infer_face_map(puzzle, turns) ==
    IF turns = <<>> THEN MetaMove_empty(puzzle)
    ELSE LET front == SubSeq(turns, 1, Len(turns) - 1)
             last == turns[Len(turns)]
         IN  MetaMove_apply(puzzle,
                            MetaMove_new_infer_face_map(puzzle, front),
                            MetaMove_new(puzzle, <<last>>, puzzle.turns[last + 1]))

RECURSIVE repeat_from(_, _, _, _)
\* self repeated against itself: self^2 .. self^MaxRepeat, shortest first.
repeat_from(puzzle, self, repeated, k) ==
    IF k > MaxRepeat THEN <<>>
    ELSE << MetaMove_apply(puzzle, repeated, self) >>
         \o repeat_from(puzzle, self, MetaMove_apply(puzzle, repeated, self), k + 1)

discover_repeat_metamoves(puzzle, self) == repeat_from(puzzle, self, self, 2)

\* Ord for MetaMove: fewer affected pieces first, then fewer turns.
MetaMove_le(a, b) ==
    \/ a.num_affected_pieces < b.num_affected_pieces
    \/ /\ a.num_affected_pieces = b.num_affected_pieces
       /\ Len(a.turns) <= Len(b.turns)

RECURSIVE sort_insert(_, _)
\* Insert mm behind every element that is not greater (keeps the sort stable).
sort_insert(sorted, mm) ==
    IF sorted = <<>> THEN <<mm>>
    ELSE IF MetaMove_le(Head(sorted), mm)
         THEN <<Head(sorted)>> \o sort_insert(Tail(sorted), mm)
         ELSE <<mm>> \o sorted

RECURSIVE sort_from(_, _)
sort_from(sorted, metamoves) ==
    IF metamoves = <<>> THEN sorted
    ELSE sort_from(sort_insert(sorted, Head(metamoves)), Tail(metamoves))

\* Vec::sort: a stable sort by Ord.
sort(metamoves) == sort_from(<<>>, metamoves)

(***************************************************************************)
(* The visitors handed to the traversal.  A visitor is a closure over      *)
(* mutable captured variables; here it is a tag, and its captured          *)
(* variables are the record vs it maps to the record after the call.       *)
(***************************************************************************)
\* The acceptance predicates MetaMoveSolver::new passes to the pipeline.
accept_fn(accept, mm) ==
    CASE accept.kind = "fewer_than" -> mm.num_affected_pieces < accept.bound
      [] accept.kind = "always" -> TRUE

\* discover_metamoves / combine_metamoves: keep what accept_fn holds for.
collect_visit(puzzle, mm, vs) ==
    [ result |-> "Continue",
      vs |-> IF accept_fn(vs.accept, mm)
             THEN [ vs EXCEPT !.out = Append(@, mm) ]
             ELSE vs ]

\* search_visit with only a higher score winning.
search_visit_higher_only(puzzle, mm, vs) ==
    LET next_state == get_derived_state(puzzle, vs.state, mm.face_map)
        next_state_score == get_num_solved_pieces(puzzle, next_state)
    IN  [ result |-> "Continue",
          vs |-> IF next_state_score > vs.best_score
                 THEN [ vs EXCEPT !.best_metamove = mm, !.best_score = next_state_score ]
                 ELSE vs ]

\* The Search-phase closure of next: a higher score wins, and so does an
\* equal score reached by fewer turns.
search_visit(puzzle, mm, vs) ==
    LET next_state == get_derived_state(puzzle, vs.state, mm.face_map)
        next_state_score == get_num_solved_pieces(puzzle, next_state)
    IN  [ result |-> "Continue",
          vs |-> IF \/ next_state_score > vs.best_score
                    \/ /\ next_state_score = vs.best_score
                       /\ Len(mm.turns) < Len(vs.best_metamove.turns)
                 THEN [ vs EXCEPT !.best_metamove = mm, !.best_score = next_state_score ]
                 ELSE vs ]

\* find_best_visit that never returns Break.
find_best_visit_never_breaks(puzzle, mm, vs) ==
    LET next_state == get_derived_state(puzzle, vs.state, mm.face_map)
        next_state_score == get_num_solved_pieces(puzzle, next_state)
        seen == [ vs EXCEPT !.visited =
                      Append(@, [ turns |-> mm.turns, score |-> next_state_score ]) ]
    IN  [ result |-> "Continue",
          vs |-> IF next_state_score > vs.best_score
                 THEN [ seen EXCEPT !.best_metamove = mm, !.best_score = next_state_score ]
                 ELSE seen ]

\* find_best_visit that never takes a combination as the best.
find_best_visit_never_better(puzzle, mm, vs) ==
    LET next_state == get_derived_state(puzzle, vs.state, mm.face_map)
        next_state_score == get_num_solved_pieces(puzzle, next_state)
    IN  [ result |-> IF next_state_score = get_num_pieces(puzzle)
                     THEN "Break" ELSE "Continue",
          vs |-> [ vs EXCEPT !.visited =
                       Append(@, [ turns |-> mm.turns, score |-> next_state_score ]) ] ]

\* find_best_visit with an equal score winning too.
find_best_visit_not_strict(puzzle, mm, vs) ==
    LET next_state == get_derived_state(puzzle, vs.state, mm.face_map)
        next_state_score == get_num_solved_pieces(puzzle, next_state)
        seen == [ vs EXCEPT !.visited =
                      Append(@, [ turns |-> mm.turns, score |-> next_state_score ]) ]
        kept == IF next_state_score >= vs.best_score
                THEN [ seen EXCEPT !.best_metamove = mm, !.best_score = next_state_score ]
                ELSE seen
    IN  [ result |-> IF next_state_score = get_num_pieces(puzzle)
                     THEN "Break" ELSE "Continue",
          vs |-> kept ]

\* The closure of find_best_metamove: only a higher score wins; a solved
\* state breaks.  visited records each call (turns and score seen).
find_best_visit(puzzle, mm, vs) ==
    LET next_state == get_derived_state(puzzle, vs.state, mm.face_map)
        next_state_score == get_num_solved_pieces(puzzle, next_state)
        seen == [ vs EXCEPT !.visited =
                      Append(@, [ turns |-> mm.turns, score |-> next_state_score ]) ]
        kept == IF next_state_score > vs.best_score
                THEN [ seen EXCEPT !.best_metamove = mm, !.best_score = next_state_score ]
                ELSE seen
    IN  [ result |-> IF next_state_score = get_num_pieces(puzzle)
                     THEN "Break" ELSE "Continue",
          vs |-> kept ]

visit_fn(visitor, puzzle, mm, vs) ==
    CASE visitor = "collect" -> collect_visit(puzzle, mm, vs)
      [] visitor = "search" -> search_visit(puzzle, mm, vs)
      [] visitor = "find_best" -> find_best_visit(puzzle, mm, vs)

(***************************************************************************)
(* Combination traversal (crate::traverse_combinations): depth-first, the  *)
(* pool reused at every level, the visitor called on each node of depth    *)
(* 1..max_depth; Break is returned through every level at once.            *)
(***************************************************************************)
RECURSIVE traverse_from(_, _, _, _, _, _, _)
\* The loop over the pool at one level, from candidate k on.
traverse_from(puzzle, pool, max_depth, accumulated, k, visitor, vs) ==
    IF max_depth = 0 \/ k > Len(pool) THEN [ result |-> "Continue", vs |-> vs ]
    ELSE LET combined == MetaMove_apply(puzzle, accumulated, pool[k])
             here == visit_fn(visitor, puzzle, combined, vs)
         IN  IF here.result = "Break" THEN here
             ELSE LET below == traverse_from(puzzle, pool, max_depth - 1,
                                             combined, 1, visitor, here.vs)
                  IN  IF below.result = "Break" THEN below
                      ELSE traverse_from(puzzle, pool, max_depth,
                                         accumulated, k + 1, visitor, below.vs)

traverse_combinations(puzzle, pool, max_depth, seed, visitor, vs) ==
    traverse_from(puzzle, pool, max_depth, seed, 1, visitor, vs)

\* Every raw turn as a one-turn MetaMove, in turn order.
individual_turns_metamoves(puzzle) ==
    [ k \in 1 .. Len(puzzle.turns) |-> MetaMove_new(puzzle, <<k - 1>>, puzzle.turns[k]) ]

discover_metamoves(puzzle, accept, max_depth) ==
    traverse_combinations(puzzle, individual_turns_metamoves(puzzle), max_depth,
                          MetaMove_empty(puzzle), "collect",
                          [ accept |-> accept, out |-> <<>> ]).vs.out

combine_metamoves(puzzle, accept, base_metamoves, max_depth) ==
    traverse_combinations(puzzle, base_metamoves, max_depth,
                          MetaMove_empty(puzzle), "collect",
                          [ accept |-> accept, out |-> <<>> ]).vs.out

(***************************************************************************)
(* filter_duplicates.  The HashMap is the set of MetaMoves it holds, at    *)
(* most one for a face map (its key); into_values yields them in the       *)
(* map's iteration order, which the program does not determine: every      *)
(* order is a possible result.                                             *)
(***************************************************************************)
\* The map after one pass of the loop body: a vacant entry takes mm, an
\* occupied one is replaced only by a strictly shorter turn list.
\* entry_insert emptying the map when it replaces a longer MetaMove.
entry_insert_replaces_map(map, mm) ==
    LET occupied == { held \in map : held.face_map = mm.face_map }
    IN  IF occupied = {} THEN map \cup { mm }
        ELSE IF \E held \in occupied : Len(held.turns) > Len(mm.turns)
             THEN { mm }
             ELSE map

\* entry_insert never replacing the metamove an occupied entry holds.
entry_insert_keeps_first(map, mm) ==
    IF \E held \in map : held.face_map = mm.face_map THEN map ELSE map \cup { mm }

entry_insert(map, mm) ==
    LET occupied == { held \in map : held.face_map = mm.face_map }
    IN  IF occupied = {} THEN map \cup { mm }
        ELSE IF \E held \in occupied : Len(held.turns) > Len(mm.turns)
             THEN (map \ occupied) \cup { mm }
             ELSE map

RECURSIVE reduce_from(_, _)
reduce_from(map, metamoves) ==
    IF metamoves = <<>> THEN map
    ELSE reduce_from(entry_insert(map, Head(metamoves)), Tail(metamoves))

\* The map after the loop over metamoves (first to last).
metamoves_reduced(metamoves) == reduce_from({}, metamoves)

\* The possible results of HashMap::into_values().collect().
into_values(map) == Perms(map)

\* The possible results of filter_duplicates(metamoves).
filter_duplicates(metamoves) == into_values(metamoves_reduced(metamoves))

(***************************************************************************)
(* MetaMoveSolver::new.                                                    *)
(***************************************************************************)
\* The number of pieces turn 0 affects.
turn_num_affected_pieces(puzzle) ==
    MetaMove_new_infer_face_map(puzzle, <<0>>).num_affected_pieces

RECURSIVE flat_map_repeats(_, _)
\* Each metamove's repeats followed by the metamove itself, in list order.
flat_map_repeats(puzzle, metamoves) ==
    IF metamoves = <<>> THEN <<>>
    ELSE discover_repeat_metamoves(puzzle, Head(metamoves))
         \o << Head(metamoves) >>
         \o flat_map_repeats(puzzle, Tail(metamoves))

\* keeps_few_pieces keeping every metamove.
keeps_any_pieces(mm) == TRUE

\* The filter of the repeat expansion.
keeps_few_pieces(mm) == mm.num_affected_pieces <= max_affected_pieces

\* The repeat expansion and its filter on affected pieces.
repeat_expansion(puzzle, metamoves) ==
    SelectSeq(flat_map_repeats(puzzle, metamoves), keeps_few_pieces)

Panic == [ built |-> FALSE ]

\* Built with the solver starting in the Metamoves phase.
Built_in_metamoves(puzzle, initial_state, metamoves) ==
    [ built |-> TRUE,
      puzzle |-> puzzle,
      state |-> initial_state,
      phase |-> "Metamoves",
      depth |-> depth,
      metamoves |-> metamoves,
      buffered_turns |-> <<>> ]

\* The solver value new returns (phase Search, empty buffer).
Built(puzzle, initial_state, metamoves) ==
    [ built |-> TRUE,
      puzzle |-> puzzle,
      state |-> initial_state,
      phase |-> "Search",
      depth |-> depth,
      metamoves |-> metamoves,
      buffered_turns |-> <<>> ]

\* Sets of moves that affect fewer pieces than turn 0.
discovered_metamoves(puzzle) ==
    discover_metamoves(puzzle,
                       [ kind |-> "fewer_than", bound |-> turn_num_affected_pieces(puzzle) ],
                       max_discover_metamoves_depth)

\* Pairs of discovered metamoves smooshed together.
combined_metamoves(puzzle) ==
    combine_metamoves(puzzle, [ kind |-> "always" ], discovered_metamoves(puzzle),
                      combine_depth)

\* The possible values of metamoves after the second filter_duplicates:
\* the first one's order decides which of two equally short repeats the
\* second one meets first, the second one's order is the list's order.
reduced_metamoves(puzzle) ==
    LET second_maps ==
            { metamoves_reduced(repeat_expansion(puzzle, first)) :
                first \in filter_duplicates(combined_metamoves(puzzle)) }
    IN  UNION { into_values(map) : map \in second_maps }

\* The possible values of metamoves when new stops changing the list: an
\* empty list stops it at the first min().unwrap() that meets it.
final_metamoves(puzzle) ==
    IF discovered_metamoves(puzzle) = <<>> THEN { discovered_metamoves(puzzle) }
    ELSE IF combined_metamoves(puzzle) = <<>> THEN { combined_metamoves(puzzle) }
    ELSE { metamoves : metamoves \in reduced_metamoves(puzzle) }

\* The lists new can be left with at its last line, sorted: sort is stable,
\* so finish_new sorting such a list again leaves it as it is.
sorted_metamoves(puzzle) == { sort(metamoves) : metamoves \in final_metamoves(puzzle) }

\* finish_new returning a solver whatever the library.
finish_new_builds_anyway(puzzle, initial_state, metamoves) ==
    Built(puzzle, initial_state, sort(metamoves))

\* What new does with the library it ends with: unwrap of min() panics on
\* an empty one (before throw_str is reached); otherwise sort and build.
finish_new(puzzle, initial_state, metamoves) ==
    IF metamoves = <<>> THEN Panic
    ELSE Built(puzzle, initial_state, sort(metamoves))

\* The possible outcomes of MetaMoveSolver::new(puzzle, initial_state, ()).
new(puzzle, initial_state) ==
    { finish_new(puzzle, initial_state, metamoves) :
        metamoves \in final_metamoves(puzzle) }

(***************************************************************************)
(* find_best_metamove.                                                     *)
(***************************************************************************)
\* find_best_traversal visiting the library MetaMoves alone (depth 1).
find_best_traversal_one_level(puzzle, state, metamoves, max_depth) ==
    traverse_combinations(puzzle, metamoves, 1, MetaMove_empty(puzzle),
                          "find_best",
                          [ state |-> state,
                            best_metamove |-> MetaMove_empty(puzzle),
                            best_score |-> get_num_solved_pieces(puzzle, state),
                            visited |-> <<>> ]).vs

\* The traversal of find_best_metamove and what its closure captured.
find_best_traversal(puzzle, state, metamoves, max_depth) ==
    traverse_combinations(puzzle, metamoves, max_depth, MetaMove_empty(puzzle),
                          "find_best",
                          [ state |-> state,
                            best_metamove |-> MetaMove_empty(puzzle),
                            best_score |-> get_num_solved_pieces(puzzle, state),
                            visited |-> <<>> ]).vs

find_best_metamove(puzzle, state, metamoves, max_depth) ==
    find_best_traversal(puzzle, state, metamoves, max_depth).best_metamove

(***************************************************************************)
(* Iterator::next for MetaMoveSolver.  Option<usize> is a sequence of      *)
(* length at most one.  The result carries, beside the solver after the    *)
(* call and the value returned, which searches ran and what they chose.    *)
(***************************************************************************)
None == <<>>
Some(turn) == << turn >>

\* pop_buffered without the assignment to self.state.
pop_buffered_keeps_state(self) ==
    [ self |-> [ self EXCEPT !.buffered_turns = Tail(@) ],
      ret |-> Some(Head(self.buffered_turns)) ]

\* A non-empty buffer: pop its front turn, apply it, return it.
pop_buffered(self) ==
    LET next_turn == Head(self.buffered_turns)
    IN  [ self |-> [ self EXCEPT
                       !.buffered_turns = Tail(@),
                       !.state = get_derived_state_turn_index(self.puzzle, self.state,
                                                              next_turn) ],
          ret |-> Some(next_turn) ]

\* take_first_turn applying turn 0 to the state before it returns None.
take_first_turn_turns_anyway(self, best_metamove) ==
    IF best_metamove.turns = <<>>
    THEN [ self |-> [ self EXCEPT
                        !.state = get_derived_state_turn_index(self.puzzle, self.state, 0) ],
           ret |-> None ]
    ELSE [ self |-> [ self EXCEPT
                        !.state = get_derived_state_turn_index(self.puzzle, self.state,
                                                               Head(best_metamove.turns)),
                        !.buffered_turns = Tail(best_metamove.turns) ],
           ret |-> Some(Head(best_metamove.turns)) ]

\* take_first_turn returning None for a metamove of one turn as well.
take_first_turn_needs_two(self, best_metamove) ==
    IF Len(best_metamove.turns) <= 1 THEN [ self |-> self, ret |-> None ]
    ELSE [ self |-> [ self EXCEPT
                        !.state = get_derived_state_turn_index(self.puzzle, self.state,
                                                               Head(best_metamove.turns)),
                        !.buffered_turns = Tail(best_metamove.turns) ],
           ret |-> Some(Head(best_metamove.turns)) ]

\* take_first_turn buffering every turn of the metamove, the first included.
take_first_turn_buffers_all(self, best_metamove) ==
    IF best_metamove.turns = <<>> THEN [ self |-> self, ret |-> None ]
    ELSE [ self |-> [ self EXCEPT
                        !.state = get_derived_state_turn_index(self.puzzle, self.state,
                                                               Head(best_metamove.turns)),
                        !.buffered_turns = best_metamove.turns ],
           ret |-> Some(Head(best_metamove.turns)) ]

\* Apply the first turn of the chosen metamove and buffer the rest; a
\* metamove without turns returns None (the ? on first()).
take_first_turn(self, best_metamove) ==
    IF best_metamove.turns = <<>> THEN [ self |-> self, ret |-> None ]
    ELSE LET first_turn == Head(best_metamove.turns)
         IN  [ self |-> [ self EXCEPT
                            !.state = get_derived_state_turn_index(self.puzzle, self.state,
                                                                   first_turn),
                            !.buffered_turns =
                                IF Len(best_metamove.turns) > 1
                                THEN Tail(best_metamove.turns)
                                ELSE @ ],
               ret |-> Some(first_turn) ]

RECURSIVE search_depths(_, _, _)
\* The loop "for depth in 4..=5" of the Search phase, from depth d on; the
\* captured best_metamove and best_score (vs) carry over between depths.
search_depths(self, d, vs) ==
    IF d > search_depth_last THEN [ found |-> FALSE, best_metamove |-> vs.best_metamove ]
    ELSE LET after == traverse_combinations(self.puzzle,
                                            individual_turns_metamoves(self.puzzle), d,
                                            MetaMove_empty(self.puzzle), "search", vs).vs
         IN  IF after.best_metamove.num_affected_pieces # 0
             THEN [ found |-> TRUE, best_metamove |-> after.best_metamove ]
             ELSE search_depths(self, d + 1, after)

\* search_phase searching the sequences of 1 to 4 raw turns only.
search_phase_first_depth_only(self) ==
    LET after == traverse_combinations(
                     self.puzzle, individual_turns_metamoves(self.puzzle),
                     search_depth_first, MetaMove_empty(self.puzzle), "search",
                     [ state |-> self.state,
                       best_metamove |-> MetaMove_empty(self.puzzle),
                       best_score |-> get_num_solved_pieces(self.puzzle, self.state) ]).vs
    IN  [ found |-> after.best_metamove.num_affected_pieces # 0,
          best_metamove |-> after.best_metamove ]

\* The Search phase of next: found tells whether it returned a turn.
search_phase(self) ==
    search_depths(self, search_depth_first,
                  [ state |-> self.state,
                    best_metamove |-> MetaMove_empty(self.puzzle),
                    best_score |-> get_num_solved_pieces(self.puzzle, self.state) ])

next(self) ==
    IF self.buffered_turns # <<>>
    THEN LET popped == pop_buffered(self)
         IN  [ self |-> popped.self, ret |-> popped.ret,
               ran |-> {}, chosen |-> MetaMove_empty(self.puzzle) ]
    ELSE LET searched == IF self.phase = "Search" THEN search_phase(self)
                         ELSE [ found |-> FALSE ]
         IN  IF searched.found
             THEN LET taken == take_first_turn(self, searched.best_metamove)
                  IN  [ self |-> taken.self, ret |-> taken.ret,
                        ran |-> { "search" }, chosen |-> searched.best_metamove ]
             ELSE LET second == [ self EXCEPT !.phase = "Metamoves" ]
                      options == second.metamoves
                      best_metamove == find_best_metamove(second.puzzle, second.state,
                                                          options, second.depth)
                      taken == take_first_turn(second, best_metamove)
                  IN  [ self |-> taken.self, ret |-> taken.ret,
                        ran |-> IF self.phase = "Search"
                                THEN { "search", "find_best" } ELSE { "find_best" },
                        chosen |-> best_metamove ]

(***************************************************************************)
(* The state machine: one solver, constructed and then pulled.             *)
(***************************************************************************)
VARIABLES
    solver,         \* the MetaMoveSolver, or Panic when new aborted
    puzzle,         \* the puzzle handed to new
    initial_state,  \* the state handed to new
    ret,            \* what the last pull returned
    yielded,        \* the turns yielded so far, in order
    ran,            \* the searches the last pull ran ({"new"}: no pull yet)
    chosen,         \* the turns of the combination the last search chose
    target,         \* the state that search evaluated for its choice
    visits,         \* the visitor calls of the last find_best_metamove
    filter_input,   \* the list handed to filter_duplicates called on its own
    filter_output,  \* the list that call returned
    twin,           \* a second MetaMoveSolver, where two are constructed
    twin_yielded    \* the turns the second solver yielded so far, in order

vars == << solver, puzzle, initial_state, ret, yielded, ran, chosen, target, visits,
           filter_input, filter_output, twin, twin_yielded >>

\* The state after solver = new(p, scrambled_state): one of new's outcomes,
\* the library being that of the puzzle whatever the scrambled state.
Init ==
    \E p \in Puzzles :
        \E metamoves \in final_metamoves(p) :
            \E scrambled_state \in scramble(p, get_initial_state(p)) :
                /\ solver = finish_new(p, scrambled_state, metamoves)
                /\ puzzle = p
                /\ initial_state = scrambled_state
                /\ ret = None
                /\ yielded = <<>>
                /\ ran = { "new" }
                /\ chosen = <<>>
                /\ target = scrambled_state
                /\ visits = <<>>
                /\ filter_input = <<>>
                /\ filter_output = <<>>
                /\ twin = Panic
                /\ twin_yielded = <<>>

\* get_state
get_state == solver.state

\* solver.next(): out is what next(solver) evaluates to.
PullSolver ==
    /\ solver.built
    /\ Len(yielded) < MaxPulls
    /\ \E out \in { next(solver) } :
          /\ solver' = out.self
          /\ ret' = out.ret
          /\ yielded' = yielded \o out.ret
          /\ ran' = out.ran
          /\ chosen' = IF out.ran = {} THEN chosen ELSE out.chosen.turns
          /\ target' = IF out.ran = {} THEN target
                       ELSE get_derived_state(puzzle, solver.state, out.chosen.face_map)
          /\ visits' = IF "find_best" \in out.ran
                       THEN find_best_traversal(solver.puzzle, solver.state,
                                                solver.metamoves, solver.depth).visited
                       ELSE <<>>
    /\ UNCHANGED << puzzle, initial_state, filter_input, filter_output >>

\* One pull of the driving loop.
Pull == PullSolver /\ UNCHANGED << twin, twin_yielded >>

Next == Pull

Spec == Init /\ [][Next]_vars

\* The driving loop pulls until a pull returns None ("while let Some(turn) =
\* solver.next()", Iterator::collect): weak fairness of Pull up to there,
\* WF_vars written out with the loop's condition in the place of ENABLED.
pulling == solver.built /\ ~(ret = None /\ "new" \notin ran) /\ Len(yielded) < MaxPulls

FairSpec == Spec /\ ([]<>(~pulling) \/ []<><<Pull>>_vars)

(***************************************************************************)
(* Two solvers constructed from the same puzzle and the same initial       *)
(* state, each by its own call of new, and pulled side by side.            *)
(***************************************************************************)
TwinInit ==
    \E p \in Puzzles :
        \E metamoves \in sorted_metamoves(p) :
            \E other_metamoves \in sorted_metamoves(p) :
                \E scrambled_state \in scramble(p, get_initial_state(p)) :
                    /\ solver = finish_new(p, scrambled_state, metamoves)
                    /\ twin = finish_new(p, scrambled_state, other_metamoves)
                    /\ puzzle = p
                    /\ initial_state = scrambled_state
                    /\ ret = None
                    /\ yielded = <<>>
                    /\ twin_yielded = <<>>
                    /\ ran = { "new" }
                    /\ chosen = <<>>
                    /\ target = scrambled_state
                    /\ visits = <<>>
                    /\ filter_input = <<>>
                    /\ filter_output = <<>>

\* One pull of each solver.
TwinPull ==
    /\ PullSolver
    /\ twin.built
    /\ \E twin_out \in { next(twin) } :
          /\ twin' = twin_out.self
          /\ twin_yielded' = twin_yielded \o twin_out.ret

TwinNext == TwinPull

TwinSpec == TwinInit /\ [][TwinNext]_vars

(***************************************************************************)
(* filter_duplicates on its own: no solver, a list of MetaMoves of          *)
(* PuzzleFour as input, the call as the only step.                         *)
(***************************************************************************)
\* MetaMoves that share face maps: the identity by 0, 2 and (twice) 4 turns,
\* turn 0 by 1 and 3 turns, turn 1.
FilterPool ==
    { MetaMove_new_infer_face_map(PuzzleFour, turns) :
        turns \in { <<>>, <<0, 0>>, <<0, 0, 0, 0>>, <<1, 1, 1, 1>>,
                    <<0>>, <<0, 0, 0>>, <<1>> } }

FilterInit ==
    /\ solver = Panic
    /\ puzzle = PuzzleFour
    /\ initial_state = get_initial_state(PuzzleFour)
    /\ ret = None
    /\ yielded = <<>>
    /\ ran = {}
    /\ chosen = <<>>
    /\ target = get_initial_state(PuzzleFour)
    /\ visits = <<>>
    /\ filter_input \in SeqsUpTo(FilterPool, MaxFilterLen)
    /\ filter_output = <<>>
    /\ twin = Panic
    /\ twin_yielded = <<>>

\* filter_output = filter_duplicates(filter_input)
Filter ==
    /\ ran = {}
    /\ \E metamoves \in filter_duplicates(filter_input) : filter_output' = metamoves
    /\ ran' = { "filter_duplicates" }
    /\ UNCHANGED << solver, puzzle, initial_state, ret, yielded, chosen, target, visits,
                    filter_input, twin, twin_yielded >>

FilterNext == Filter

FilterSpec == FilterInit /\ [][FilterNext]_vars

(***************************************************************************)
(* Properties.                                                             *)
(***************************************************************************)
\* A pull has returned None.
exhausted == solver.built /\ ret = None /\ "new" \notin ran

solved == get_num_solved_pieces(puzzle, get_state) = get_num_pieces(puzzle)

\* C1: after any sequence of pulls the state get_state returns is the
\* initial state with the turns yielded so far applied in order (a pull that
\* returns None leaves the state alone).
C1_StateIsReplayOfYielded ==
    solver.built =>
        get_state = get_derived_state_from_turn_sequence(puzzle, initial_state, yielded)

\* C1 witness: several turns were yielded, the last one from the buffer, and
\* the state has moved.
C1_Witness ==
    /\ solver.built
    /\ Len(yielded) >= 3
    /\ ran = {}
    /\ ret # None
    /\ get_state # initial_state

\* The most turns one chosen combination can have: search_depth_last single
\* turns, or depth library metamoves.
longest_combination ==
    LET lengths == { Len(solver.metamoves[i].turns) : i \in DOMAIN solver.metamoves }
        longest == CHOOSE most \in lengths : \A other \in lengths : other <= most
    IN  IF search_depth_last >= solver.depth * longest
        THEN search_depth_last ELSE solver.depth * longest

\* C2: pulling a solver again and again reaches a pull that returns None,
\* and the turns yielded before it are bounded: each chosen combination
\* raises the score, so at most num_pieces combinations are yielded.
C2_Terminates ==
    /\ [](solver.built => Len(yielded) <= get_num_pieces(puzzle) * longest_combination)
    /\ (solver.built ~> exhausted)

\* C2 witness: a pull returned None after turns of both phases were yielded.
C2_Witness ==
    /\ exhausted
    /\ solver.phase = "Metamoves"
    /\ Len(yielded) >= 6

\* How many turns of the chosen combination have been yielded.
yielded_of_chosen == Len(chosen) - Len(solver.buffered_turns)

\* C3: a pull with an empty buffer that chooses t1..tk yields t1, and the
\* next k-1 pulls yield t2..tk in order from the front of the buffer, running
\* no search and leaving the phase alone; after the k-th the buffer is empty.
\* As an invariant: the buffer is the rest of the chosen turns, the turns
\* yielded last are its beginning, and only the pull of t1 ran a search; as an
\* action property: a pull that finds a buffer pops its front, runs no search
\* and keeps the phase.
C3_BufferedTurnsInOrder ==
    /\ [](solver.built /\ chosen # <<>> =>
            /\ yielded_of_chosen \in 1..Len(chosen)
            /\ yielded_of_chosen <= Len(yielded)
            /\ SubSeq(yielded, Len(yielded) - yielded_of_chosen + 1, Len(yielded))
                   = SubSeq(chosen, 1, yielded_of_chosen)
            /\ solver.buffered_turns = SubSeq(chosen, yielded_of_chosen + 1, Len(chosen))
            /\ (ran = {}) <=> (yielded_of_chosen >= 2))
    /\ [](solver.built /\ chosen = <<>> => solver.buffered_turns = <<>>)
    /\ [][solver.built /\ solver.buffered_turns # <<>> =>
            /\ ret' = Some(Head(solver.buffered_turns))
            /\ solver'.buffered_turns = Tail(solver.buffered_turns)
            /\ ran' = {}
            /\ solver'.phase = solver.phase
            /\ chosen' = chosen]_vars

\* C3 witness: the last of at least three chosen turns has just been yielded
\* from the buffer, which is empty again.
C3_Witness ==
    /\ solver.built
    /\ Len(chosen) >= 3
    /\ solver.buffered_turns = <<>>
    /\ ran = {}
    /\ ret = Some(chosen[Len(chosen)])

\* C4: the phase is a one-way state machine: a new solver is in Search, the
\* only change a pull makes is Search to Metamoves, and Metamoves stays.
C4_PhaseOneWay ==
    /\ (solver.built => solver.phase = "Search")
    /\ [](solver.built => solver.phase \in { "Search", "Metamoves" })
    /\ [][solver.built =>
            /\ solver'.phase # solver.phase =>
                    solver.phase = "Search" /\ solver'.phase = "Metamoves"
            /\ solver.phase = "Metamoves" => solver'.phase = "Metamoves"]_vars

\* C4 witness: after turns of both phases, a pull that started in the
\* Metamoves phase ran find_best_metamove only, and the phase is Metamoves.
C4_Witness ==
    /\ solver.built
    /\ solver.phase = "Metamoves"
    /\ ran = { "find_best" }
    /\ Len(yielded) >= 6

\* C5: after filter_duplicates no two retained MetaMoves share a face_map,
\* and each retained MetaMove has the fewest turns among the input MetaMoves
\* with its face_map.
C5_DeduplicationSound ==
    ran = { "filter_duplicates" } =>
        /\ \A i, j \in DOMAIN filter_output :
              filter_output[i].face_map = filter_output[j].face_map => i = j
        /\ \A i \in DOMAIN filter_output : \A k \in DOMAIN filter_input :
              filter_input[k].face_map = filter_output[i].face_map =>
                  Len(filter_output[i].turns) <= Len(filter_input[k].turns)

\* C5 witness: the input held a face_map three times, the longest first and
\* the shortest last, and the call returned one MetaMove.
C5_Witness ==
    /\ ran = { "filter_duplicates" }
    /\ Len(filter_input) = 3
    /\ filter_input[1].face_map = filter_input[2].face_map
    /\ filter_input[2].face_map = filter_input[3].face_map
    /\ Len(filter_input[1].turns) > Len(filter_input[2].turns)
    /\ Len(filter_input[2].turns) > Len(filter_input[3].turns)
    /\ Len(filter_output) = 1

\* C6: the face_map of a MetaMove the solver built with apply has the effect
\* of its turns applied one at a time: so for the library MetaMoves on the
\* solver's state, and so for the chosen combination, whose turns still
\* buffered lead from the solver's state to the state its face_map gave when
\* it was chosen (the solver's state itself once all are yielded).
C6_EffectOfTurnsIsFaceMap ==
    solver.built =>
        /\ get_derived_state_from_turn_sequence(puzzle, get_state, solver.buffered_turns)
               = target
        /\ \A i \in DOMAIN solver.metamoves :
              get_derived_state_from_turn_sequence(puzzle, get_state,
                                                   solver.metamoves[i].turns)
                 = get_derived_state(puzzle, get_state, solver.metamoves[i].face_map)

\* C6 witness: find_best_metamove chose a combination of library MetaMoves,
\* all its turns are yielded and they changed the state.
C6_Witness ==
    /\ solver.built
    /\ solver.phase = "Metamoves"
    /\ Len(chosen) >= 2
    /\ solver.buffered_turns = <<>>
    /\ get_state = target
    /\ get_state # get_derived_state_from_turn_sequence(
                       puzzle, initial_state,
                       SubSeq(yielded, 1, Len(yielded) - Len(chosen)))

\* C7: the library of a solver new returned holds no two MetaMoves with the
\* same face_map and none that affects more than 3 pieces, and no pull
\* changes it.
C7_LibraryDeduplicatedAndCapped ==
    /\ [](solver.built =>
            /\ \A i, j \in DOMAIN solver.metamoves :
                  solver.metamoves[i].face_map = solver.metamoves[j].face_map => i = j
            /\ \A i \in DOMAIN solver.metamoves :
                  /\ solver.metamoves[i].num_affected_pieces <= max_affected_pieces
                  /\ solver.metamoves[i].num_affected_pieces
                        = count_affected_pieces(puzzle, solver.metamoves[i].face_map))
    /\ [][solver.built => solver'.metamoves = solver.metamoves]_vars

\* C7 witness: a library of several MetaMoves, one of them affecting 3
\* pieces, after pulls of both phases.
C7_Witness ==
    /\ solver.built
    /\ Len(solver.metamoves) >= 3
    /\ \E i \in DOMAIN solver.metamoves :
          solver.metamoves[i].num_affected_pieces = max_affected_pieces
    /\ solver.phase = "Metamoves"
    /\ Len(yielded) >= 3

\* C8: when discovery, or a later stage of the pipeline, leaves no MetaMove,
\* new aborts and returns no solver: every solver there is has a library that
\* is not empty.
C8_NoSolverWithoutLibrary ==
    solver.built => solver.metamoves # <<>>

\* C8 witness: new aborted on a puzzle whose discovery found MetaMoves, all
\* of them dropped by the filter on affected pieces.
C8_Witness ==
    /\ ~solver.built
    /\ discovered_metamoves(puzzle) # <<>>
    /\ combined_metamoves(puzzle) # <<>>
    /\ repeat_expansion(puzzle, combined_metamoves(puzzle)) = <<>>

\* C9: a pull can return None while the state is unsolved (the witness): it
\* does when find_best_metamove, having visited the combinations of library
\* MetaMoves, found none that scores higher than the state, and it leaves the
\* state unsolved with nothing chosen and nothing buffered.
C9_ExhaustedUnsolved ==
    exhausted /\ ~solved =>
        /\ "find_best" \in ran
        /\ chosen = <<>>
        /\ solver.buffered_turns = <<>>
        /\ visits # <<>>
        /\ \A i \in DOMAIN visits :
              visits[i].score <= get_num_solved_pieces(puzzle, get_state)
        /\ get_num_solved_pieces(puzzle, get_state) < get_num_pieces(puzzle)

\* C9 witness: a pull returned None after turns were yielded, the state
\* unsolved.
C9_Witness ==
    /\ exhausted
    /\ get_num_solved_pieces(puzzle, get_state) < get_num_pieces(puzzle)
    /\ Len(yielded) >= 3

\* The nodes a traversal of the library to the solver's depth visits when
\* its visitor never breaks, in the order of the visits.
all_combinations ==
    combine_metamoves(puzzle, [ kind |-> "always" ], solver.metamoves, solver.depth)

\* C10: the traversal of find_best_metamove visits the nodes another
\* traversal with the same pool, depth and seed visits, in the same order,
\* up to the first node whose score is num_pieces (the visitor's Break):
\* after that one no node is visited, at whatever level it was; without
\* such a node every node is visited.
C10_BreakEndsTraversal ==
    solver.built /\ "find_best" \in ran =>
        /\ Len(visits) <= Len(all_combinations)
        /\ \A i \in DOMAIN visits : visits[i].turns = all_combinations[i].turns
        /\ \A i \in DOMAIN visits :
              visits[i].score = get_num_pieces(puzzle) => i = Len(visits)
        /\ \/ Len(visits) = Len(all_combinations)
           \/ visits[Len(visits)].score = get_num_pieces(puzzle)

\* C10 witness: the traversal was broken at a node of the second level (a
\* combination of two library MetaMoves) with nodes still to visit.
C10_Witness ==
    /\ solver.built
    /\ "find_best" \in ran
    /\ Len(visits) > Len(solver.metamoves)
    /\ Len(visits) < Len(all_combinations)
    /\ visits[Len(visits)].score = get_num_pieces(puzzle)
    /\ \A k \in DOMAIN solver.metamoves :
          solver.metamoves[k].turns # visits[Len(visits)].turns

\* The sequences of 1 to k raw turns of the puzzle.
raw_turn_sequences(k) == SeqsUpTo(TurnIndices(puzzle), k) \ { <<>> }

\* The score of the state the turns lead to from the solver's state.
score_after(turns) ==
    get_num_solved_pieces(puzzle,
                          get_derived_state_from_turn_sequence(puzzle, get_state, turns))

\* Some sequence of 1 to k raw turns raises the score of the solver's state.
raw_turns_improve(k) ==
    \E turns \in raw_turn_sequences(k) : score_after(turns) > score_after(<<>>)

\* The turns the pull chose are, among the sequences of 1 to k raw turns, one
\* of highest score and, among those of that score, one of fewest turns.
chooses_best_of(k) ==
    /\ ran' = { "search" }
    /\ chosen' \in raw_turn_sequences(k)
    /\ \A turns \in raw_turn_sequences(k) :
          \/ score_after(turns) < score_after(chosen')
          \/ score_after(turns) = score_after(chosen') /\ Len(turns) >= Len(chosen')

\* C11: a pull in the Search phase with an empty buffer chooses, when some
\* sequence of 1 to 4 raw turns raises the score, a sequence of 1 to 4 raw
\* turns of highest score and of fewest turns among those of that score; when
\* none does but some sequence of 1 to 5 raw turns does, the same among the
\* sequences of 1 to 5 raw turns.
C11_SearchChoosesBest ==
    [][solver.built /\ solver.phase = "Search" /\ solver.buffered_turns = <<>> =>
         /\ raw_turns_improve(search_depth_first) => chooses_best_of(search_depth_first)
         /\ ~raw_turns_improve(search_depth_first) /\ raw_turns_improve(search_depth_last)
               => chooses_best_of(search_depth_last)]_vars

\* C11 witness: the Search phase has just chosen five raw turns, having
\* chosen a shorter sequence before.
C11_Witness ==
    /\ solver.built
    /\ ran = { "search" }
    /\ Len(chosen) = search_depth_last
    /\ Len(yielded) >= 2

\* C12: a pull changes the phase exactly when the phase is Search, the buffer
\* is empty and no sequence of 1 to 5 raw turns raises the score; the phase is
\* then Metamoves and the same pull has run find_best_metamove.
C12_TransitionWhenSearchFails ==
    [][solver.built =>
         /\ solver'.phase # solver.phase
               <=> /\ solver.phase = "Search"
                   /\ solver.buffered_turns = <<>>
                   /\ ~raw_turns_improve(search_depth_last)
         /\ solver'.phase # solver.phase =>
               solver'.phase = "Metamoves" /\ ran' = { "search", "find_best" }]_vars

\* C12 witness: the pull that changed the phase yielded a turn of a library
\* combination, after the Search phase had yielded turns.
C12_Witness ==
    /\ solver.built
    /\ solver.phase = "Metamoves"
    /\ ran = { "search", "find_best" }
    /\ ret # None
    /\ Len(yielded) >= 2

\* The turns the pull chose are those of the first composition of 1 to depth
\* library MetaMoves, in the order of the traversal, whose score is the
\* highest of all.
chooses_best_combination ==
    \E i \in DOMAIN all_combinations :
        /\ all_combinations[i].turns = chosen'
        /\ \A j \in DOMAIN all_combinations :
              score_after(all_combinations[j].turns) <= score_after(chosen')
        /\ \A j \in 1 .. i - 1 :
              score_after(all_combinations[j].turns) < score_after(chosen')

\* Some composition of 1 to depth library MetaMoves solves the state.
some_combination_solves ==
    \E j \in DOMAIN all_combinations :
        score_after(all_combinations[j].turns) = get_num_pieces(puzzle)

\* C13: a pull with an empty buffer that runs find_best_metamove (the phase
\* is Metamoves, or becomes it in this pull) and yields a turn has chosen the
\* first composition of 1 to depth library MetaMoves of highest score; and
\* when some such composition solves the unsolved state, the pull yields a
\* turn and the turns it chose lead to the solved state.
C13_MetamovesChoosesBest ==
    [][solver.built /\ "find_best" \in ran' =>
         /\ ret' # None => chooses_best_combination
         /\ ~solved /\ some_combination_solves =>
               ret' # None /\ score_after(chosen') = get_num_pieces(puzzle)]_vars

\* C13 witness: a pull that started in the Metamoves phase chose a
\* combination and yielded its first turn.
C13_Witness ==
    /\ solver.built
    /\ ran = { "find_best" }
    /\ ret # None
    /\ Len(chosen) >= 2

\* A combination of library MetaMoves has just been chosen that solves the
\* state (the second part of C13 happens).
C13_SolvingChosen ==
    /\ solver.built
    /\ "find_best" \in ran
    /\ ret # None
    /\ get_num_solved_pieces(puzzle, target) = get_num_pieces(puzzle)

\* Some composition of 1 to depth library MetaMoves raises the score of the
\* solver's state.
library_improves ==
    \E j \in DOMAIN all_combinations :
        score_after(all_combinations[j].turns) > score_after(<<>>)

\* C14: a pull returns None if and only if the buffer is empty, the Search
\* phase, when still active, finds no sequence of 1 to 5 raw turns that raises
\* the score, and no composition of 1 to depth library MetaMoves raises it.
C14_ExhaustionCondition ==
    [][solver.built =>
         (ret' = None <=> /\ solver.buffered_turns = <<>>
                          /\ solver.phase = "Search" => ~raw_turns_improve(search_depth_last)
                          /\ ~library_improves)]_vars

\* C14 witness: a pull made in the Search phase, after turns were yielded,
\* found nothing in either search and returned None.
C14_Witness ==
    /\ exhausted
    /\ ran = { "search", "find_best" }
    /\ Len(yielded) >= 1

\* ---------------------------------------------------------------------
\* C15: every MetaMove kept by the discovery stage displaces strictly
\* fewer pieces than each single raw turn of the puzzle displaces, for
\* every turn index and not only for turn 0.
\* new measures turn 0 alone (turn_num_affected_pieces) and discovery
\* accepts against that one number, so on a puzzle whose turn 1 displaces
\* fewer pieces than turn 0 the single turn <<1>> is itself kept.
C15_DiscoveredBelowEveryTurn ==
    \A i \in DOMAIN discovered_metamoves(puzzle) :
        \A turn_index \in TurnIndices(puzzle) :
            discovered_metamoves(puzzle)[i].num_affected_pieces
                < MetaMove_new_infer_face_map(puzzle, << turn_index >>).num_affected_pieces

\* What the acceptance test of discovery does guarantee: fewer pieces
\* than turn 0 displaces.
C15_DiscoveredBelowTurnZero ==
    \A i \in DOMAIN discovered_metamoves(puzzle) :
        discovered_metamoves(puzzle)[i].num_affected_pieces
            < turn_num_affected_pieces(puzzle)

\* A discovered MetaMove that displaces as many pieces as some raw turn.
C15_KeptNotBelowSomeTurn ==
    /\ puzzle = PuzzleUneven
    /\ \E i \in DOMAIN discovered_metamoves(puzzle) :
          /\ discovered_metamoves(puzzle)[i].turns = << 1 >>
          /\ discovered_metamoves(puzzle)[i].num_affected_pieces
                = MetaMove_new_infer_face_map(puzzle, << 1 >>).num_affected_pieces

\* ---------------------------------------------------------------------
\* The state at the moment the combination being yielded was chosen: the
\* initial state with the turns yielded before it applied.
state_when_chosen ==
    get_derived_state_from_turn_sequence(
        puzzle, initial_state, SubSeq(yielded, 1, Len(yielded) - yielded_of_chosen))

\* C16: in both phases a pull with an empty buffer that chooses a
\* combination chooses one whose end state scores strictly higher than the
\* state at the moment of choosing, and when all of its turns have been
\* yielded (buffer empty again) the solver is in that end state; so the
\* scores at successive empty-buffer points strictly increase and never
\* exceed num_pieces.
C16_StrictProgress ==
    /\ [][solver.built /\ solver.buffered_turns = <<>> /\ ret' # None =>
            /\ ran' # {}
            /\ target' = get_derived_state_from_turn_sequence(puzzle, get_state, chosen')
            /\ get_num_solved_pieces(puzzle, target')
                  > get_num_solved_pieces(puzzle, get_state)]_vars
    /\ [](solver.built /\ chosen # <<>> /\ solver.buffered_turns = <<>> =>
            /\ get_state = target
            /\ get_num_solved_pieces(puzzle, get_state)
                  > get_num_solved_pieces(puzzle, state_when_chosen)
            /\ get_num_solved_pieces(puzzle, get_state) <= get_num_pieces(puzzle))

\* C16 witness: in the Metamoves phase a second combination of library
\* MetaMoves, of several turns, has been yielded to its end after earlier
\* combinations, and the puzzle is still not solved.
C16_Witness ==
    /\ solver.built
    /\ solver.phase = "Metamoves"
    /\ ran = {}
    /\ solver.buffered_turns = <<>>
    /\ Len(chosen) >= 2
    /\ Len(yielded) > Len(chosen)
    /\ get_num_solved_pieces(puzzle, state_when_chosen)
          > get_num_solved_pieces(puzzle, initial_state)
    /\ ~solved

\* ---------------------------------------------------------------------
\* C17: a pull that returns None found the buffer empty and leaves it
\* empty, leaves the puzzle state alone and yields nothing; the only field
\* it may change is the phase, which it leaves at Metamoves.  Once a pull
\* has returned None every later pull returns None and changes nothing.
C17_ExhaustionTerminal ==
    /\ [][solver.built /\ ret' = None =>
            /\ solver.buffered_turns = <<>>
            /\ solver'.buffered_turns = <<>>
            /\ solver'.state = solver.state
            /\ yielded' = yielded
            /\ solver' = [ solver EXCEPT !.phase = "Metamoves" ]]_vars
    /\ [][exhausted => ret' = None /\ solver' = solver]_vars

\* C17 witness: an unsolved puzzle whose first pull, in the Search phase,
\* returned None and a later pull, in the Metamoves phase, returned None
\* again.
C17_Witness ==
    /\ exhausted
    /\ ran = { "find_best" }
    /\ yielded = <<>>
    /\ solver.phase = "Metamoves"
    /\ get_state = initial_state
    /\ ~solved

\* ---------------------------------------------------------------------
\* C18: a pull that finds the puzzle solved and the buffer empty returns
\* None and yields no turn, in the Search phase and in the Metamoves phase;
\* a solver constructed on a solved state never yields a turn.
C18_NoMoveFromSolved ==
    /\ [][solver.built /\ solved /\ solver.buffered_turns = <<>> =>
            /\ ret' = None
            /\ yielded' = yielded
            /\ solver'.state = solver.state]_vars
    /\ [](solver.built
            /\ get_num_solved_pieces(puzzle, initial_state) = get_num_pieces(puzzle)
          => yielded = <<>>)

\* C18 witness: a solver constructed on the solved state has been pulled
\* twice, first in the Search phase and then in the Metamoves phase, and
\* both pulls returned None.
C18_Witness ==
    /\ exhausted
    /\ solved
    /\ initial_state = get_initial_state(puzzle)
    /\ solver.phase = "Metamoves"
    /\ ran = { "find_best" }
    /\ solver.metamoves # <<>>
    /\ yielded = <<>>

\* ---------------------------------------------------------------------
\* C19: two MetaMoveSolvers constructed from the same puzzle and the same
\* initial state yield the same sequence of turns and pass through the
\* same states.
\* filter_duplicates returns its MetaMoves in the iteration order of a
\* HashMap and the sort that follows is stable, so library MetaMoves of
\* equal num_affected_pieces and equal length stand in an order that differs
\* from one call of new to the next, and find_best_metamove keeps the first
\* of equally scoring combinations.
C19_SolversAgree ==
    solver.built /\ twin.built =>
        /\ twin_yielded = yielded
        /\ twin.state = solver.state

\* What the two solvers do share: with the same library in the same order
\* they yield the same turns and pass through the same states.
C19_SameLibrarySameTurns ==
    solver.built /\ twin.built /\ twin.metamoves = solver.metamoves =>
        /\ twin_yielded = yielded
        /\ twin = solver

\* Two solvers whose libraries differ in order only have yielded the same
\* turns up to here, and their last pull chose among library MetaMoves.
C19_Witness ==
    /\ solver.built
    /\ twin.built
    /\ twin.metamoves # solver.metamoves
    /\ Range(twin.metamoves) = Range(solver.metamoves)
    /\ "find_best" \in ran
    /\ ret # None
    /\ twin_yielded = yielded
    /\ twin.state = solver.state

\* ---------------------------------------------------------------------
\* The face_maps of the MetaMoves of a list.
face_maps(metamoves) == { metamoves[i].face_map : i \in DOMAIN metamoves }

\* C20: every MetaMove filter_duplicates returns is one of those it was
\* given, the face_maps of its result are the face_maps of its argument,
\* one MetaMove for each, and filter_duplicates of its own result returns
\* the same set of MetaMoves.
C20_FilterKeepsEffects ==
    ran = { "filter_duplicates" } =>
        /\ Range(filter_output) \subseteq Range(filter_input)
        /\ face_maps(filter_output) = face_maps(filter_input)
        /\ Len(filter_output) = Cardinality(face_maps(filter_input))
        /\ \A again \in filter_duplicates(filter_output) :
              Range(again) = Range(filter_output)

\* C20 witness: of three MetaMoves given, the second and the third had the
\* same face_map, the third in fewer turns, and the first another one; two
\* were returned.
C20_Witness ==
    /\ ran = { "filter_duplicates" }
    /\ Len(filter_input) = 3
    /\ filter_input[1].face_map # filter_input[2].face_map
    /\ filter_input[2].face_map = filter_input[3].face_map
    /\ Len(filter_input[2].turns) > Len(filter_input[3].turns)
    /\ Len(filter_output) = 2
    /\ Range(filter_output) = { filter_input[1], filter_input[3] }

====
